---- MODULE Spec2Model ----
(***************************************************************************)
(* Event loop responsiveness tracer (toolkit/xre/EventTracer.cpp).         *)
(*                                                                         *)
(* The model has three kinds of process:                                   *)
(*   - the embedding thread, which calls InitEventTracing and              *)
(*     ShutdownEventTracing one after the other (variable ctl is its       *)
(*     position inside ShutdownEventTracing);                              *)
(*   - the tracer threads created by PR_CreateThread, each running         *)
(*     TracerThread (thr[t].pc is its position);                           *)
(*   - the foreground event loop, which services a fired tracer event.     *)
(*                                                                         *)
(* The widget back end (InitWidgetTracing, FireAndWaitForTracerEvent,      *)
(* SignalTracerThread, CleanUpWidgetTracing) and NSPR's interval clock     *)
(* (PR_MillisecondsToInterval, PR_TicksPerSecond) are declared in headers  *)
(* the file includes; their behaviour is modelled from the design text.    *)
(* PR_Sleep is a plain timed sleep: it returns when its ticks have passed. *)
(*                                                                         *)
(* sExit is a plain bool read and written by two threads.  Every read of   *)
(* it in TracerThread is separated from the previous one by a call to an   *)
(* opaque function, so the build reloads it; a read is modelled as a read  *)
(* of the current value at some interleaving point.                        *)
(***************************************************************************)
EXTENDS Integers, Sequences, FiniteSets, TLC

\* ------------------------------------------------------------ bounds
\* Thread handles PR_CreateThread can hand out in one run of the model.
MaxThreads == 2
\* Sample lines one tracer thread writes before only fast probes are drawn.
MaxSamples == 2
\* Outstanding InitWidgetTracing calls the model follows.
MaxInits == 2
\* Longest override string drawn for the environment.
MaxEnvLen == 2
\* Width of int / PRUint32 / PRIntervalTime in the model (32 in the build).
IntBits == 8

\* ------------------------------------------------------------ constants
DefaultThresholdMs == 20
DefaultIntervalMs == 10

TwoTo[n \in Nat] == IF n = 0 THEN 1 ELSE 2 * TwoTo[n - 1]
UintMod == TwoTo[IntBits]
INT_MAX == TwoTo[IntBits - 1] - 1
INT_MIN == -TwoTo[IntBits - 1]

Threads == 1..MaxThreads
NULL == 0

VARIABLES
    sTracerThread,   \* PRThread* sTracerThread: NULL or a thread handle
    sExit,           \* bool sExit
    thr,             \* per tracer thread: pc and the locals of TracerThread
    sinkOps,         \* per tracer thread: what it did to its log sink, in order
    ctl,             \* embedding thread: position inside ShutdownEventTracing
    lastCall,        \* which entry point the embedding thread called last
    lastResult,      \* what the last InitEventTracing returned
    lastArg,         \* the aLog the last InitEventTracing was called with
    stoppedAt,       \* per thread: Len(sinkOps) when its stop returned, or -1
    widgetInit,      \* widget back end: initialisations not yet cleaned up
    signalled,       \* widget back end: an interrupt waiting to be consumed
    outputenv,       \* MOZ_INSTRUMENT_EVENT_LOOP_OUTPUT
    thresholdenv,    \* MOZ_INSTRUMENT_EVENT_LOOP_THRESHOLD
    intervalenv,     \* MOZ_INSTRUMENT_EVENT_LOOP_INTERVAL
    ticksPerSecond,  \* PR_TicksPerSecond() of the platform
    threadLimit      \* thread handles this run may still hand out in total

vars == <<sTracerThread, sExit, thr, sinkOps, ctl, lastCall, lastResult,
          lastArg, stoppedAt, widgetInit, signalled, outputenv, thresholdenv,
          intervalenv, ticksPerSecond, threadLimit>>

envVars == <<outputenv, thresholdenv, intervalenv, ticksPerSecond, threadLimit>>

\* ------------------------------------------------------------ environment
\* PR_GetEnv returns NULL for a variable that is not set.
Unset == <<"NULL">>

Alphabet == {"-", "0", "9", "x"}

RECURSIVE StringsUpTo(_)
StringsUpTo(n) ==
    IF n = 0 THEN {<<>>}
    ELSE LET shorter == StringsUpTo(n - 1)
         IN  shorter \cup {Append(s, c) : s \in shorter, c \in Alphabet}

\* Override strings the environment may hold: every string over Alphabet up
\* to MaxEnvLen characters, and a few with a leading blank, a plus sign, or
\* the value INT_MAX itself.
EnvStrings ==
    StringsUpTo(MaxEnvLen)
        \cup {<<" ", "9">>, <<"+", "9">>, <<"1", "2", "7">>, <<"9", "9", "9">>,
              <<"-", "9", "9", "9">>}

EnvValues == {Unset} \cup EnvStrings

\* PR_TicksPerSecond(): platform dependent, fixed for the life of the process.
TicksChoices == {1000, 2000, 3000}

\* Round-trip times the foreground loop may take, in microseconds.
DurationsUs == {0, 5000, 5700, 35000}

\* ------------------------------------------------------------ atoi
Digits == {"0", "1", "2", "3", "4", "5", "6", "7", "8", "9"}

DigitVal(c) ==
    CASE c = "0" -> 0 [] c = "1" -> 1 [] c = "2" -> 2 [] c = "3" -> 3
      [] c = "4" -> 4 [] c = "5" -> 5 [] c = "6" -> 6 [] c = "7" -> 7
      [] c = "8" -> 8 [] c = "9" -> 9

\* First index of s at or after i that holds no blank.
RECURSIVE SkipBlanks(_, _)
SkipBlanks(s, i) ==
    IF i <= Len(s) /\ s[i] = " " THEN SkipBlanks(s, i + 1) ELSE i

\* Value of the run of decimal digits of s that starts at index i.
RECURSIVE DigitRun(_, _, _)
DigitRun(s, i, acc) ==
    IF i <= Len(s) /\ s[i] \in Digits
    THEN DigitRun(s, i + 1, acc * 10 + DigitVal(s[i]))
    ELSE acc

\* The mathematical value atoi reads: blanks, an optional sign, digits; 0
\* when no digit follows.
AtoiValue(s) ==
    LET i == SkipBlanks(s, 1)
        neg == i <= Len(s) /\ s[i] = "-"
        signed == i <= Len(s) /\ s[i] \in {"-", "+"}
        mag == DigitRun(s, IF signed THEN i + 1 ELSE i, 0)
    IN  IF neg THEN -mag ELSE mag

\* An integer reduced to the int it is stored as (two's complement).
WrapInt(v) ==
    LET u == v % UintMod
    IN  IF u > INT_MAX THEN u - UintMod ELSE u

\* What atoi may return.  A value that fits an int is returned as it is.  For
\* one that does not, the C library is free: the builds either saturate
\* (INT_MAX / INT_MIN) or keep the low bits of a wider strtol result.
Atoi(s) ==
    LET v == AtoiValue(s)
    IN  IF v >= INT_MIN /\ v <= INT_MAX
        THEN {v}
        ELSE {IF v > 0 THEN INT_MAX ELSE INT_MIN, WrapInt(v)}

\* An int passed where a PRUint32 is expected.
ToUint(v) == v % UintMod

\* ------------------------------------------------------------ interval clock
\* PR_MillisecondsToInterval(PRUint32 milli): milliseconds to ticks of the
\* interval clock, rounded, stored in a PRIntervalTime.
PR_MillisecondsToInterval(milli, tps) ==
    ((milli * tps + 500) \div 1000) % UintMod

\* ------------------------------------------------------------ config
\* Whether TracerThread takes an override: the variable is set, not empty,
\* and atoi gave neither 0 nor INT_MAX nor INT_MIN.
OverrideAccepted(env, val) ==
    /\ env # Unset
    /\ env # <<>>
    /\ val # 0 /\ val # INT_MAX /\ val # INT_MIN

\* The number of milliseconds handed to PR_MillisecondsToInterval.
ResolvedMs(env, val, default) ==
    IF OverrideAccepted(env, val) THEN ToUint(val) ELSE default

\* ------------------------------------------------------------ state
\* A thread handle that was never handed out.  Besides pc and the locals of
\* TracerThread a thread carries two records of its history: sinceFireUs, the
\* microseconds since its last call of FireAndWaitForTracerEvent (-1 when it
\* has made none, or has left the loop), and envAtStart, the three environment
\* variables as they were when InitEventTracing created the thread.
NoThread ==
    [pc |-> "none", mLogTracing |-> FALSE, log |-> "null",
     thresholdMs |-> 0, threshold |-> 0, intervalMs |-> 0, interval |-> 0,
     next_sleep |-> 0, completed |-> FALSE, durationUs |-> 0, sampled |-> FALSE,
     sinceFireUs |-> -1, envAtStart |-> <<"unset", Unset, Unset>>]

\* The threads whose TracerThread has been entered (or is about to be) and has
\* not returned.
Alive == {t \in Threads : thr[t].pc \notin {"none", "dead"}}

LineKinds == {"start", "sample", "stop"}

\* The log lines thread t has written, in order.
Lines(t) == SelectSeq(sinkOps[t], LAMBDA op : op \in LineKinds)

SampleCount(t) == Len(SelectSeq(sinkOps[t], LAMBDA op : op = "sample"))

InitWith(outs, envs, ticks, limit) ==
    /\ sTracerThread = NULL
    /\ sExit = FALSE
    /\ thr = [t \in Threads |-> NoThread]
    /\ sinkOps = [t \in Threads |-> <<>>]
    /\ ctl = "idle"
    /\ lastCall = "none"
    /\ lastResult = FALSE
    /\ lastArg = FALSE
    /\ stoppedAt = [t \in Threads |-> -1]
    /\ widgetInit = 0
    /\ signalled = FALSE
    /\ outputenv \in outs
    /\ \E p \in envs : thresholdenv = p[1] /\ intervalenv = p[2]
    /\ ticksPerSecond \in ticks
    /\ threadLimit = limit

\* ------------------------------------------------------------ TracerThread
\* ExitAtEntry with the assignment of line 101 lost: sExit keeps its value.
ExitAtEntry_Kept == sExit

\* Line 101: the value TracerThread gives sExit on entry.
ExitAtEntry == FALSE

\* Lines 90-101: the defaults, then sExit = false.
T_Begin(t) ==
    /\ thr[t].pc = "begin"
    /\ sExit' = ExitAtEntry
    /\ thr' = [thr EXCEPT ![t].pc = "open",
                          ![t].thresholdMs = DefaultThresholdMs,
                          ![t].threshold =
                              PR_MillisecondsToInterval(DefaultThresholdMs, ticksPerSecond),
                          ![t].intervalMs = DefaultIntervalMs,
                          ![t].interval =
                              PR_MillisecondsToInterval(DefaultIntervalMs, ticksPerSecond)]
    /\ UNCHANGED <<sTracerThread, sinkOps, ctl, lastCall, lastResult, lastArg, stoppedAt,
                   widgetInit, signalled, envVars>>

\* Lines 102-108: fopen(envfile, "w") when the variable is set, whatever
\* mLogTracing is; stdout when it is not set or the file cannot be opened.
T_OpenLog(t) ==
    /\ thr[t].pc = "open"
    /\ IF outputenv = "writable"
       THEN /\ thr' = [thr EXCEPT ![t].pc = "threshold", ![t].log = "file"]
            /\ sinkOps' = [sinkOps EXCEPT ![t] = Append(@, "open")]
       ELSE /\ thr' = [thr EXCEPT ![t].pc = "threshold", ![t].log = "stdout"]
            /\ UNCHANGED sinkOps
    /\ UNCHANGED <<sTracerThread, sExit, ctl, lastCall, lastResult, lastArg, stoppedAt,
                   widgetInit, signalled, envVars>>

\* Lines 110-116.
T_Threshold(t) ==
    /\ thr[t].pc = "threshold"
    /\ \E val \in Atoi(IF thresholdenv = Unset THEN <<>> ELSE thresholdenv) :
         LET ms == ResolvedMs(thresholdenv, val, thr[t].thresholdMs)
         IN  thr' = [thr EXCEPT ![t].pc = "interval",
                                ![t].thresholdMs = ms,
                                ![t].threshold =
                                    PR_MillisecondsToInterval(ms, ticksPerSecond)]
    /\ UNCHANGED <<sTracerThread, sExit, sinkOps, ctl, lastCall, lastResult, lastArg,
                   stoppedAt, widgetInit, signalled, envVars>>

\* Lines 118-124.
T_Interval(t) ==
    /\ thr[t].pc = "interval"
    /\ \E val \in Atoi(IF intervalenv = Unset THEN <<>> ELSE intervalenv) :
         LET ms == ResolvedMs(intervalenv, val, thr[t].intervalMs)
         IN  thr' = [thr EXCEPT ![t].pc = "logstart",
                                ![t].intervalMs = ms,
                                ![t].interval =
                                    PR_MillisecondsToInterval(ms, ticksPerSecond)]
    /\ UNCHANGED <<sTracerThread, sExit, sinkOps, ctl, lastCall, lastResult, lastArg,
                   stoppedAt, widgetInit, signalled, envVars>>

\* LogsLines with the start line's test lost: the start line is never written.
LogsLines_NoStartLine(t) == thr[t].mLogTracing /\ thr[t].pc # "logstart"

\* Whether thread t writes log lines (threadArgs->mLogTracing).
LogsLines(t) == thr[t].mLogTracing

\* Lines 126-128.
T_LogStart(t) ==
    /\ thr[t].pc = "logstart"
    /\ thr' = [thr EXCEPT ![t].pc = "loop"]
    /\ sinkOps' = [sinkOps EXCEPT ![t] = IF LogsLines(t) THEN Append(@, "start") ELSE @]
    /\ UNCHANGED <<sTracerThread, sExit, ctl, lastCall, lastResult, lastArg, stoppedAt,
                   widgetInit, signalled, envVars>>

\* Lines 130-133: the loop test, and next_sleep = interval on entry.
T_LoopCheck(t) ==
    /\ thr[t].pc = "loop"
    /\ thr' = [thr EXCEPT ![t].pc = IF sExit THEN "logstop" ELSE "fire",
                          ![t].next_sleep = IF sExit THEN 0 ELSE thr[t].interval,
                          ![t].completed = FALSE,
                          ![t].durationUs = 0,
                          ![t].sampled = FALSE,
                          ![t].sinceFireUs = IF sExit THEN -1 ELSE @]
    /\ UNCHANGED <<sTracerThread, sExit, sinkOps, ctl, lastCall, lastResult, lastArg,
                   stoppedAt, widgetInit, signalled, envVars>>

\* Line 138, the call: the event is posted and the thread waits.
T_Fire(t) ==
    /\ thr[t].pc = "fire"
    /\ thr' = [thr EXCEPT ![t].pc = "wait", ![t].sinceFireUs = 0]
    /\ UNCHANGED <<sTracerThread, sExit, sinkOps, ctl, lastCall, lastResult, lastArg,
                   stoppedAt, widgetInit, signalled, envVars>>

\* Line 141: duration.ToMilliseconds() > threshold, a double number of
\* milliseconds against a PRIntervalTime.
ExceedsThreshold(durationUs, threshold) == durationUs > threshold * 1000

\* Line 138, the return with true: the foreground loop serviced the event d
\* microseconds after start was taken.  Once the thread has written
\* MaxSamples sample lines only round trips that write none are drawn.
ProbeServiced(t, d) ==
    /\ thr[t].pc = "wait"
    /\ (LogsLines(t) /\ ExceedsThreshold(d, thr[t].threshold)) => SampleCount(t) < MaxSamples
    /\ thr' = [thr EXCEPT ![t].pc = "probed", ![t].completed = TRUE,
                          ![t].durationUs = d, ![t].sinceFireUs = @ + d]
    /\ UNCHANGED <<sTracerThread, sExit, sinkOps, ctl, lastCall, lastResult, lastArg,
                   stoppedAt, widgetInit, signalled, envVars>>

\* Line 138, the return with false: SignalTracerThread interrupted the wait.
ProbeInterrupted(t) ==
    /\ thr[t].pc = "wait"
    /\ signalled
    /\ signalled' = FALSE
    /\ thr' = [thr EXCEPT ![t].pc = "probed", ![t].completed = FALSE]
    /\ UNCHANGED <<sTracerThread, sExit, sinkOps, ctl, lastCall, lastResult, lastArg,
                   stoppedAt, widgetInit, envVars>>

\* Lines 147-154: the sleep left after a round trip of durationUs.
NextSleep(next_sleep, durationUs) ==
    IF next_sleep * 1000 > durationUs
    THEN (next_sleep - (durationUs \div 1000)) % UintMod
    ELSE 0

\* Lines 139-155.
T_AfterProbe(t) ==
    /\ thr[t].pc = "probed"
    /\ IF thr[t].completed
       THEN LET write == LogsLines(t)
                         /\ ExceedsThreshold(thr[t].durationUs, thr[t].threshold)
            IN  /\ thr' = [thr EXCEPT ![t].pc = "sleepcheck",
                                      ![t].sampled = write,
                                      ![t].next_sleep =
                                          NextSleep(thr[t].next_sleep, thr[t].durationUs)]
                /\ sinkOps' = [sinkOps EXCEPT ![t] =
                                  IF write THEN Append(@, "sample") ELSE @]
       ELSE /\ thr' = [thr EXCEPT ![t].pc = "sleepcheck"]
            /\ UNCHANGED sinkOps
    /\ UNCHANGED <<sTracerThread, sExit, ctl, lastCall, lastResult, lastArg, stoppedAt,
                   widgetInit, signalled, envVars>>

\* Line 157.
T_SleepCheck(t) ==
    /\ thr[t].pc = "sleepcheck"
    /\ thr' = [thr EXCEPT ![t].pc =
                  IF thr[t].next_sleep # 0 /\ ~sExit THEN "sleep" ELSE "loop"]
    /\ UNCHANGED <<sTracerThread, sExit, sinkOps, ctl, lastCall, lastResult, lastArg,
                   stoppedAt, widgetInit, signalled, envVars>>

\* Microseconds that n ticks of the interval clock last.
TicksToUs(n) == (n * 1000000) \div ticksPerSecond

\* Line 158, inside PR_Sleep(next_sleep): the next_sleep ticks pass.
SleepElapses(t) ==
    /\ thr[t].pc = "sleep"
    /\ thr' = [thr EXCEPT ![t].pc = "slept",
                          ![t].sinceFireUs = @ + TicksToUs(thr[t].next_sleep)]
    /\ UNCHANGED <<sTracerThread, sExit, sinkOps, ctl, lastCall, lastResult, lastArg,
                   stoppedAt, widgetInit, signalled, envVars>>

\* Line 158: PR_Sleep(next_sleep) returns when the time has passed.
T_Wake(t) ==
    /\ thr[t].pc = "slept"
    /\ thr' = [thr EXCEPT ![t].pc = "loop"]
    /\ UNCHANGED <<sTracerThread, sExit, sinkOps, ctl, lastCall, lastResult, lastArg,
                   stoppedAt, widgetInit, signalled, envVars>>

\* Lines 162-164.
T_LogStop(t) ==
    /\ thr[t].pc = "logstop"
    /\ thr' = [thr EXCEPT ![t].pc = "close"]
    /\ sinkOps' = [sinkOps EXCEPT ![t] = IF LogsLines(t) THEN Append(@, "stop") ELSE @]
    /\ UNCHANGED <<sTracerThread, sExit, ctl, lastCall, lastResult, lastArg, stoppedAt,
                   widgetInit, signalled, envVars>>

\* ClosesLog with the test of line 166 lost: every log is closed.
ClosesLog_Always(t) == TRUE

\* Line 166: the log is closed unless it is stdout.
ClosesLog(t) == thr[t].log # "stdout"

\* Lines 166-170: fclose unless the log is stdout, delete threadArgs, return.
T_Close(t) ==
    /\ thr[t].pc = "close"
    /\ thr' = [thr EXCEPT ![t].pc = "dead"]
    /\ sinkOps' = [sinkOps EXCEPT ![t] = IF ClosesLog(t) THEN Append(@, "close") ELSE @]
    /\ UNCHANGED <<sTracerThread, sExit, ctl, lastCall, lastResult, lastArg, stoppedAt,
                   widgetInit, signalled, envVars>>

TracerThread(t) ==
    \/ T_Begin(t)
    \/ T_OpenLog(t)
    \/ T_Threshold(t)
    \/ T_Interval(t)
    \/ T_LogStart(t)
    \/ T_LoopCheck(t)
    \/ T_Fire(t)
    \/ ProbeInterrupted(t)
    \/ T_AfterProbe(t)
    \/ T_SleepCheck(t)
    \/ SleepElapses(t)
    \/ T_Wake(t)
    \/ T_LogStop(t)
    \/ T_Close(t)

\* The foreground event loop services the tracer event of a waiting thread.
ForegroundLoop == \E t \in Threads, d \in DurationsUs : ProbeServiced(t, d)

\* ------------------------------------------------------------ widget back end
\* SignalTracerThread: wakes a thread waiting in FireAndWaitForTracerEvent.
\* With no thread waiting the interrupt is either remembered for the next
\* wait or lost; the design text leaves it open, so both are followed.
SignalOutcomes ==
    IF \E t \in Threads : thr[t].pc = "wait" THEN {TRUE} ELSE {signalled, TRUE}

\* ------------------------------------------------------------ InitEventTracing
\* AlreadyRunning with the test of line 178 dropped.
AlreadyRunning_NoTest == FALSE

\* Line 178: a tracer thread is already recorded.
AlreadyRunning == sTracerThread # NULL

\* A handle PR_CreateThread can still hand out.
FreeHandles == {t \in Threads : thr[t].pc = "none" /\ t <= threadLimit}

\* Lines 176-200.  initOk is what InitWidgetTracing returns, spawnOk whether
\* PR_CreateThread can create the thread.
InitEventTracing(aLog, initOk, spawnOk) ==
    /\ ctl = "idle"
    /\ lastArg' = aLog
    /\ IF AlreadyRunning
       THEN /\ lastCall' = "start_noop"
            /\ lastResult' = TRUE
            /\ UNCHANGED <<sTracerThread, thr, widgetInit>>
       ELSE /\ lastCall' = "start"
            /\ IF ~initOk
               THEN /\ lastResult' = FALSE
                    /\ UNCHANGED <<sTracerThread, thr, widgetInit>>
               ELSE /\ widgetInit < MaxInits
                    /\ widgetInit' = widgetInit + 1
                    /\ IF spawnOk /\ FreeHandles # {}
                       THEN LET t == CHOOSE h \in FreeHandles :
                                        \A o \in FreeHandles : h <= o
                            IN  /\ thr' = [thr EXCEPT
                                              ![t].pc = "begin",
                                              ![t].mLogTracing = aLog,
                                              ![t].envAtStart =
                                                  <<outputenv, thresholdenv, intervalenv>>]
                                /\ sTracerThread' = t
                                /\ lastResult' = TRUE
                       ELSE /\ sTracerThread' = NULL
                            /\ lastResult' = FALSE
                            /\ UNCHANGED thr
    /\ UNCHANGED <<sExit, sinkOps, ctl, stoppedAt, signalled, envVars>>

\* ------------------------------------------------------------ ShutdownEventTracing
\* NoTracerThread with the early return of lines 204-205 dropped.
NoTracerThread_NoEarlyReturn == FALSE

\* Line 204: no tracer thread is recorded.
NoTracerThread == sTracerThread = NULL

\* Lines 204-205: the test on entry; without a thread the call returns.
S_Enter ==
    /\ ctl = "idle"
    /\ IF NoTracerThread
       THEN /\ ctl' = "return"
            /\ lastCall' = "stop_noop"
       ELSE /\ ctl' = "setexit"
            /\ lastCall' = "stop"
    /\ UNCHANGED <<sTracerThread, sExit, thr, sinkOps, lastResult, lastArg,
                   stoppedAt, widgetInit, signalled, envVars>>

\* Line 207.
S_SetExit ==
    /\ ctl = "setexit"
    /\ sExit' = TRUE
    /\ ctl' = "signal"
    /\ UNCHANGED <<sTracerThread, thr, sinkOps, lastCall, lastResult, lastArg, stoppedAt,
                   widgetInit, signalled, envVars>>

\* Line 209.
S_Signal ==
    /\ ctl = "signal"
    /\ signalled' \in SignalOutcomes
    /\ ctl' = "join"
    /\ UNCHANGED <<sTracerThread, sExit, thr, sinkOps, lastCall, lastResult, lastArg,
                   stoppedAt, widgetInit, envVars>>

\* PR_JoinThread(t) returns once thread t has returned from TracerThread.
JoinReturns(t) == thr[t].pc = "dead"

\* JoinsThread with the PR_JoinThread call of line 212 never made.
JoinsThread_Never == FALSE

\* Line 211: the thread is joined when the handle is set.
JoinsThread == sTracerThread # NULL

\* Lines 211-212.
S_Join ==
    /\ ctl = "join"
    /\ JoinsThread => JoinReturns(sTracerThread)
    /\ ctl' = "cleanup"
    /\ UNCHANGED <<sTracerThread, sExit, thr, sinkOps, lastCall, lastResult, lastArg,
                   stoppedAt, widgetInit, signalled, envVars>>

\* Lines 213-216: the handle is cleared and the widget back end releases
\* what one InitWidgetTracing took.
S_CleanUp ==
    /\ ctl = "cleanup"
    /\ stoppedAt' = [t \in Threads |->
                        IF t = sTracerThread THEN Len(sinkOps[t]) ELSE stoppedAt[t]]
    /\ sTracerThread' = NULL
    /\ widgetInit' = IF widgetInit > 0 THEN widgetInit - 1 ELSE 0
    /\ ctl' = "return"
    /\ UNCHANGED <<sExit, thr, sinkOps, lastCall, lastResult, lastArg, signalled, envVars>>

\* Line 205 or 217: ShutdownEventTracing returns.
S_Return ==
    /\ ctl = "return"
    /\ ctl' = "idle"
    /\ UNCHANGED <<sTracerThread, sExit, thr, sinkOps, lastCall, lastResult, lastArg,
                   stoppedAt, widgetInit, signalled, envVars>>

ShutdownEventTracing ==
    \/ S_Enter
    \/ S_SetExit
    \/ S_Signal
    \/ S_Join
    \/ S_CleanUp
    \/ S_Return

\* The steps of ShutdownEventTracing after its entry.
ShutdownProgress == S_SetExit \/ S_Signal \/ S_Join \/ S_CleanUp \/ S_Return

\* ------------------------------------------------------------ specifications
Start == \E aLog \in BOOLEAN, initOk \in BOOLEAN, spawnOk \in BOOLEAN :
            InitEventTracing(aLog, initOk, spawnOk)

Tracer == \E t \in Threads : TracerThread(t)

Next == Start \/ ShutdownEventTracing \/ Tracer \/ ForegroundLoop

OutputChoices == {"unset", "writable", "unwritable"}

\* The lifecycle: the overrides of threshold and interval are not set, the
\* clock ticks once a millisecond, and up to MaxThreads threads are started.
Init == InitWith(OutputChoices, {<<Unset, Unset>>}, {1000}, MaxThreads)

Spec == Init /\ [][Next]_vars

\* The scheduler runs a runnable tracer thread, the embedding thread goes on
\* inside ShutdownEventTracing, and the foreground loop services events.
Fairness ==
    /\ WF_vars(Tracer)
    /\ WF_vars(ShutdownProgress)
    /\ WF_vars(ForegroundLoop)

FairSpec == Init /\ [][Next]_vars /\ Fairness

\* The configuration: one tracer thread, every override string and tick rate.
EnvPairs == {p \in EnvValues \X EnvValues : p[1] = Unset \/ p[2] = Unset}

InitCfg == InitWith(OutputChoices, EnvPairs, TicksChoices, 1)

CfgSpec == InitCfg /\ [][Next]_vars

\* Values the process gives a threshold or interval override while it runs.
EnvChanges == {Unset, <<"9">>}

\* The process changes one variable of its environment (PR_SetEnv) at some moment
\* after InitEventTracing has created the tracer thread and before
\* ShutdownEventTracing has cleared the handle.
SetEnv ==
    /\ sTracerThread # NULL
    /\ \/ outputenv' \in OutputChoices /\ UNCHANGED <<thresholdenv, intervalenv>>
       \/ thresholdenv' \in EnvChanges /\ UNCHANGED <<outputenv, intervalenv>>
       \/ intervalenv' \in EnvChanges /\ UNCHANGED <<outputenv, thresholdenv>>
    /\ UNCHANGED <<sTracerThread, sExit, thr, sinkOps, ctl, lastCall, lastResult,
                   lastArg, stoppedAt, widgetInit, signalled, ticksPerSecond,
                   threadLimit>>

NextEnv == Next \/ SetEnv

\* The changing environment: one tracer thread, the environment changed any
\* number of times while the thread is recorded.
InitEnv == InitWith(OutputChoices, {<<Unset, Unset>>}, {1000}, 1)

EnvSpec == InitEnv /\ [][NextEnv]_vars

\* ------------------------------------------------------------ claims
\* C1: whenever ShutdownEventTracing has found a tracer thread, it eventually
\* returns, wherever the tracer thread is at that moment (fair scheduling).
C1_ShutdownCompletes == (ctl = "setexit") ~> (ctl = "idle")

\* C2: once ShutdownEventTracing has returned for a tracer thread, that
\* thread has returned from TracerThread and does nothing more to its sink.
C2_StopReturnsAfterThreadEnd ==
    \A t \in Threads :
        stoppedAt[t] >= 0 => thr[t].pc = "dead" /\ Len(sinkOps[t]) = stoppedAt[t]

\* C2 witness: a stop has returned for a thread that wrote a sample line.
C2_Witness ==
    \E t \in Threads :
        /\ stoppedAt[t] >= 0
        /\ ctl = "idle"
        /\ lastCall = "stop"
        /\ SampleCount(t) > 0

\* C3: at most one tracer thread is alive, and a second InitEventTracing with
\* no shutdown in between returns true and leaves exactly one alive.
C3_AtMostOneTracer ==
    /\ Cardinality(Alive) <= 1
    /\ lastCall = "start_noop" => lastResult /\ Cardinality(Alive) = 1

\* C3 witness: InitEventTracing was called on a running tracer.
C3_Witness ==
    /\ lastCall = "start_noop"
    /\ \E t \in Threads : thr[t].pc = "wait"

\* The lines of one cycle so far: start first and only first, stop only last.
CyclePrefix(l) ==
    \A i \in 1..Len(l) :
        /\ (l[i] = "start") <=> (i = 1)
        /\ (l[i] = "stop") => (i = Len(l))

\* The lines of a finished cycle: start, samples, stop.
CycleComplete(l) ==
    /\ Len(l) >= 2
    /\ l[1] = "start"
    /\ l[Len(l)] = "stop"
    /\ \A i \in 2..(Len(l) - 1) : l[i] = "sample"

\* C4: with logging enabled a tracer thread writes one start line, then sample
\* lines, then one stop line, in this order and nothing else.
C4_LineOrder ==
    \A t \in Threads :
        (thr[t].pc # "none" /\ thr[t].mLogTracing) =>
            /\ CyclePrefix(Lines(t))
            /\ thr[t].pc \in {"loop", "fire", "wait", "probed", "sleepcheck", "sleep",
                              "slept", "logstop"}
                  => (Len(Lines(t)) >= 1 /\ Lines(t)[Len(Lines(t))] # "stop")
            /\ thr[t].pc \in {"close", "dead"} => CycleComplete(Lines(t))

\* C4 witness: a finished cycle that wrote start, two samples, stop.
C4_Witness ==
    \E t \in Threads :
        /\ thr[t].pc = "dead"
        /\ Lines(t) = <<"start", "sample", "sample", "stop">>

\* C5: after a completed probe with logging enabled a sample line was written
\* exactly when the round trip took more milliseconds than the threshold.
C5_SampleIffOverThreshold ==
    \A t \in Threads :
        (thr[t].pc = "sleepcheck" /\ thr[t].completed /\ thr[t].mLogTracing) =>
            (thr[t].sampled <=> thr[t].durationUs > thr[t].thresholdMs * 1000)

\* The larger of 0 and x.
Max0(x) == IF x > 0 THEN x ELSE 0

\* C6: after a completed probe of duration d the sleep is max(0, i - d), the
\* sleep (ticks) and i, d (milliseconds) brought to the same unit.
C6_SleepIsIntervalMinusDuration ==
    \A t \in Threads :
        (thr[t].pc = "sleepcheck" /\ thr[t].completed) =>
            thr[t].next_sleep * 1000000
                = ticksPerSecond * Max0(thr[t].intervalMs * 1000 - thr[t].durationUs)

\* C7: a tracer thread started with logging disabled does nothing to the sink.
C7_NoSinkUseWithoutLogging ==
    \A t \in Threads : ~thr[t].mLogTracing => sinkOps[t] = <<>>

\* What the claim resolves an override to: its value when it is an integer in
\* 1..INT_MAX-1, the default otherwise (not set, empty, no digits, zero,
\* negative, too large).
ClaimedMs(env, default) ==
    IF env # Unset /\ AtoiValue(env) >= 1 /\ AtoiValue(env) < INT_MAX
    THEN AtoiValue(env)
    ELSE default

\* C8: the resolved threshold and interval are the override when it is valid
\* and the default (20 ms, 10 ms) otherwise.
C8_ConfigResolution ==
    \A t \in Threads :
        thr[t].pc \in {"logstart", "loop"} =>
            /\ thr[t].thresholdMs = ClaimedMs(thresholdenv, DefaultThresholdMs)
            /\ thr[t].intervalMs = ClaimedMs(intervalenv, DefaultIntervalMs)

\* C9: an InitEventTracing that returns false leaves no thread, no handle and
\* no widget initialisation of its own behind.
C9_FailedStartLeavesNothing ==
    [][(ctl = "idle" /\ lastCall' = "start" /\ ~lastResult') =>
          (sTracerThread' = NULL /\ Alive' = {} /\ widgetInit' = widgetInit)]_vars

\* C10: ShutdownEventTracing with no tracer thread recorded returns at once
\* and changes neither sExit nor the handle, and the widget back end is
\* neither signalled nor cleaned up.
C10_StopWithoutTracerIsNoOp ==
    [][((ctl = "idle" /\ ctl' # "idle" /\ sTracerThread = NULL)
           \/ (ctl = "return" /\ lastCall = "stop_noop")) =>
          (/\ ctl' \in {"return", "idle"}
           /\ UNCHANGED <<sExit, sTracerThread, signalled, widgetInit, thr,
                          sinkOps, stoppedAt>>)]_vars

\* C10 witness: a second shutdown after a completed one is about to return.
C10_Witness ==
    /\ ctl = "return"
    /\ lastCall = "stop_noop"
    /\ sExit
    /\ \E t \in Threads : stoppedAt[t] >= 0

\* C11: sExit is written only by ShutdownEventTracing and only to true; the
\* tracer thread never writes it, so it stays true once shutdown has set it.
C11_ExitFlagOnlySetByShutdown ==
    [][sExit' # sExit => (ctl = "setexit" /\ ctl' = "signal" /\ sExit')]_vars

\* The number of "close" operations thread t has done.
CloseCount(t) == Len(SelectSeq(sinkOps[t], LAMBDA op : op = "close"))

\* C17: a file log is closed exactly once, at the end of the thread and after
\* the stop line; stdout is never closed; nothing is closed before the end.
C17_SinkClosedOnceAtEnd ==
    \A t \in Threads :
        LET ops == sinkOps[t]
        IN  /\ thr[t].pc # "dead" => CloseCount(t) = 0
            /\ (thr[t].pc = "dead" /\ thr[t].log = "stdout") => CloseCount(t) = 0
            /\ (thr[t].pc = "dead" /\ thr[t].log = "file") =>
                  /\ CloseCount(t) = 1
                  /\ ops[Len(ops)] = "close"
                  /\ thr[t].mLogTracing => ops[Len(ops) - 1] = "stop"

\* C17 witness: a thread that logged a sample to a file has ended.
C17_Witness ==
    \E t \in Threads :
        /\ thr[t].pc = "dead"
        /\ thr[t].log = "file"
        /\ thr[t].mLogTracing
        /\ SampleCount(t) > 0

\* ShutdownEventTracing has set sExit for tracer thread t.
ShutdownAsked(t) ==
    \/ stoppedAt[t] >= 0
    \/ sTracerThread = t /\ ctl \in {"signal", "join", "cleanup"}

\* C18: a tracer thread started after a completed cycle does not leave its
\* loop before ShutdownEventTracing is called for it, although the earlier
\* shutdown left sExit true.
C18_RestartKeepsProbing ==
    \A t \in Threads :
        thr[t].pc \in {"logstop", "close", "dead"} => ShutdownAsked(t)

\* C18 witness: after a completed cycle a second thread waits in a probe and
\* no shutdown has been called for it.
C18_Witness ==
    \E t, u \in Threads :
        /\ stoppedAt[t] >= 0
        /\ thr[u].pc = "wait"
        /\ ~ShutdownAsked(u)
        /\ ctl = "idle"

\* The resolution of lines 110-124 gives no value but ms for override env.
ResolvesTo(env, default, ms) ==
    \E val \in Atoi(IF env = Unset THEN <<>> ELSE env) :
        ms = ResolvedMs(env, val, default)

\* C12: the log, threshold and interval a tracer thread uses are those of the
\* environment as it was when InitEventTracing returned, whatever the process
\* does to its environment afterwards.
C12_ConfigReadOnceAtStart ==
    \A t \in Threads :
        thr[t].pc \in {"logstart", "loop", "fire", "wait", "probed", "sleepcheck",
                       "sleep", "slept", "logstop", "close", "dead"} =>
            /\ (thr[t].log = "file") <=> (thr[t].envAtStart[1] = "writable")
            /\ ResolvesTo(thr[t].envAtStart[2], DefaultThresholdMs, thr[t].thresholdMs)
            /\ ResolvesTo(thr[t].envAtStart[3], DefaultIntervalMs, thr[t].intervalMs)

\* An interval override the design accepts: not set, or an integer from 1 to
\* INT_MAX - 1.
ValidOverride(env) ==
    env = Unset \/ (AtoiValue(env) >= 1 /\ AtoiValue(env) < INT_MAX)

ProbeWasInterrupted(t) ==
    /\ thr[t].pc \in {"sleepcheck", "loop"}
    /\ thr[t].sinceFireUs >= 0
    /\ ~thr[t].completed

\* C14: after an interrupted probe no sample line is written, next_sleep is
\* still the whole interval, and the thread neither sleeps nor fires again.
C14_InterruptedProbeEndsLoop ==
    [][\A t \in Threads :
          ProbeWasInterrupted(t) =>
              /\ ~thr[t].sampled
              /\ thr[t].next_sleep = thr[t].interval
              /\ SampleCount(t)' = SampleCount(t)
              /\ thr'[t].pc \notin {"sleep", "fire"}]_vars

\* C15: a tracer thread that is inside PR_Sleep, its time not yet over, when
\* ShutdownEventTracing has set sExit and called SignalTracerThread, can
\* return from PR_Sleep at once.
C15_ShutdownCutsSleepShort ==
    \A t \in Threads :
        (thr[t].pc = "sleep" /\ sExit /\ sTracerThread = t /\ ctl = "join") =>
            ENABLED T_Wake(t)

\* A step that is a call of InitEventTracing: the embedding thread stays
\* outside ShutdownEventTracing and the record of its last call changes.
StartCalled ==
    /\ ctl = "idle"
    /\ ctl' = "idle"
    /\ <<lastCall, lastResult, lastArg>> # <<lastCall', lastResult', lastArg'>>

\* C16: InitEventTracing with a tracer thread recorded returns true and changes
\* nothing: no InitWidgetTracing, no new thread, and the running thread keeps
\* its mLogTracing whatever aLog the call was given.
C16_StartOnRunningIsNoOp ==
    [][(StartCalled /\ sTracerThread # NULL) =>
          (/\ lastResult'
           /\ UNCHANGED <<sTracerThread, thr, widgetInit, sinkOps, sExit,
                          signalled, stoppedAt>>)]_vars

\* C16 witness: InitEventTracing(true) was called on a tracer thread that was
\* started with logging disabled and is waiting in a probe.
C16_Witness ==
    /\ lastCall = "start_noop"
    /\ lastArg
    /\ \E t \in Threads :
          /\ sTracerThread = t
          /\ thr[t].pc = "wait"
          /\ ~thr[t].mLogTracing

\* C19: a thread inside FireAndWaitForTracerEvent is the recorded tracer
\* thread, so InitWidgetTracing has succeeded for it and CleanUpWidgetTracing
\* has not run since; and CleanUpWidgetTracing runs only once that thread has
\* returned from TracerThread.
C19_ProbesOnlyWhileInitialised ==
    /\ \A t \in Threads :
          thr[t].pc = "wait" => (sTracerThread = t /\ widgetInit >= 1)
    /\ ctl = "cleanup" => (sTracerThread # NULL /\ thr[sTracerThread].pc = "dead")

\* C19 witness: the thread that wrote a sample line has been joined and
\* CleanUpWidgetTracing is about to run.
C19_Witness ==
    /\ ctl = "cleanup"
    /\ widgetInit >= 1
    /\ \E t \in Threads :
          sTracerThread = t /\ thr[t].pc = "dead" /\ SampleCount(t) > 0

====
